---- MODULE Spec2Model ----
(***************************************************************************)
(* Model of the Amazon MQ broker resource handler                          *)
(* (src/aws/resource_aws_mq_broker.go): the user-list differ               *)
(* diffAwsMqBrokerUsers, the convergence driver updateAwsMqBrokerUsers     *)
(* and the orchestrator resourceAwsMqBrokerUpdate with its reboot wait.    *)
(***************************************************************************)
EXTENDS Integers, Sequences, FiniteSets, TLC

VARIABLES
    pc,             \* position of the running handler
    oldUsers,       \* Observed collection handed to the differ ([]interface{})
    newUsers,       \* Declared collection handed to the differ ([]interface{})
    createL,        \* []*mq.CreateUserRequest still to be issued / returned
    deleteL,        \* []*mq.DeleteUserInput still to be issued / returned
    updateL,        \* []*mq.UpdateUserRequest still to be issued / returned
    change,         \* d.HasChange(...) of the running Update cycle
    apply_immediately, \* d.Get("apply_immediately") of the running cycle
    requiresReboot, \* local of resourceAwsMqBrokerUpdate
    updatedUsers,   \* local of updateAwsMqBrokerUsers
    usersReturn,    \* what updateAwsMqBrokerUsers returned: flag and error
    calls,          \* remote calls issued in the running cycle, in order
    err,            \* what the running handler returned ("" = nil, "none" = still running)
    broker,         \* the remote broker: status as DescribeBroker reports it
    polls,          \* DescribeBroker polls made by the running wait
    cycle,          \* number of Update cycles started
    pending,        \* restart required by an earlier cycle and not yet issued
    d,              \* the resource data: id, arn, engine_type, "user", and
                    \* whether Read wrote it
    remoteUsers,    \* the users the remote broker holds ([]*mq.User, no password)
    rawUsers,       \* local of resourceAwsMqBrokerRead: the users described so far
    cancelled       \* -1, or the length of calls when the caller asked to stop

vars == <<pc, oldUsers, newUsers, createL, deleteL, updateL, change,
          apply_immediately, requiresReboot, updatedUsers, usersReturn, calls,
          err, broker, polls, cycle, pending, d, remoteUsers, rawUsers,
          cancelled>>

\* What the differ and the Update cycle leave alone.
lvars == <<d, remoteUsers, rawUsers, cancelled>>

(***************************************************************************)
(* Bounds                                                                  *)
(***************************************************************************)
\* longest Observed / Declared list enumerated
MaxUsers == 2
\* status polls a wait may make before its 30 minute timeout elapses
MaxPolls == 3
\* Update cycles run one after the other
MaxCycles == 2

Usernames == {"alice", "bob", "carol"}

\* The attribute sets a user is drawn from: a base, the same groups declared
\* in the other order, and one change of each attribute.
UserAttrs ==
    { [console_access |-> FALSE, groups |-> <<"admin", "ops">>, password |-> "pw1"],
      [console_access |-> FALSE, groups |-> <<"ops", "admin">>, password |-> "pw1"],
      [console_access |-> TRUE,  groups |-> <<"admin", "ops">>, password |-> "pw1"],
      [console_access |-> FALSE, groups |-> <<"admin", "ops">>, password |-> "pw2"],
      [console_access |-> FALSE, groups |-> <<>>,               password |-> "pw1"] }

\* The attribute sets of the users of an Update cycle.
CycleAttrs ==
    { [console_access |-> FALSE, groups |-> <<"admin", "ops">>, password |-> "pw1"],
      [console_access |-> TRUE,  groups |-> <<>>,               password |-> "pw1"] }

BrokerId == "b-1"
BrokerArn == "arn:b-1"

\* engine_type, letter by letter: strings.EqualFold compares letters.
EngineTypeRabbitmq == <<"R", "A", "B", "B", "I", "T", "M", "Q">>
EngineTypeActivemq == <<"A", "C", "T", "I", "V", "E", "M", "Q">>

(***************************************************************************)
(* schema.Set of strings: the elements, here in the order they were added. *)
(* Set.List() returns them sorted by the key they are filed under.         *)
(***************************************************************************)
\* The key a Set files an element under: strconv.Itoa(schema.HashString(s)),
\* the decimal digits of the CRC-32 of the string.
HashCode(s) ==
    CASE s = "admin" -> <<2, 2, 8, 2, 6, 2, 2, 3, 2, 6>>
      [] s = "ops"   -> <<1, 5, 2, 6, 2, 7, 1, 1, 0, 3>>
      [] s = "dev"   -> <<2, 9, 2, 8, 1, 1, 0, 1, 3>>
      [] OTHER       -> <<0>>

RECURSIVE StrLess(_, _)
StrLess(a, b) ==
    IF a = <<>> THEN b # <<>>
    ELSE IF b = <<>> THEN FALSE
    ELSE IF Head(a) # Head(b) THEN Head(a) < Head(b)
    ELSE StrLess(Tail(a), Tail(b))

CodeLess(x, y) == StrLess(HashCode(x), HashCode(y))

RECURSIVE InsertByCode(_, _)
InsertByCode(x, sorted) ==
    IF sorted = <<>> THEN <<x>>
    ELSE IF x = Head(sorted) THEN sorted
    ELSE IF CodeLess(x, Head(sorted)) THEN <<x>> \o sorted
    ELSE <<Head(sorted)>> \o InsertByCode(x, Tail(sorted))

RECURSIVE SortByCode(_)
SortByCode(items) ==
    IF items = <<>> THEN <<>>
    ELSE InsertByCode(Head(items), SortByCode(Tail(items)))

\* Mutant: the groups are compared in the order they were listed.
SetList_Unsorted(items) == items

\* g.(*schema.Set).List()
SetList(items) == SortByCode(items)

\* A user map as the schema hands it to the handler: all four keys present,
\* "groups" a *schema.Set.
User(name, a) ==
    [username |-> name, console_access |-> a.console_access,
     groups |-> [type |-> "Set", items |-> a.groups], password |-> a.password]

\* u["groups"] = g.(*schema.Set).List()
GroupsToList(u) ==
    [u EXCEPT !.groups = [type |-> "List", items |-> SetList(u.groups.items)]]

(***************************************************************************)
(* diffAwsMqBrokerUsers                                                    *)
(***************************************************************************)
\* Go maps: a function whose domain is the set of keys.
MapPut(m, k, v) == [x \in (DOMAIN m) \cup {k} |-> IF x = k THEN v ELSE m[x]]
MapDelete(m, k) == [x \in (DOMAIN m) \ {k} |-> m[x]]
EmptyMap == [x \in {} |-> 0]

\* First loop: existingUsers[username] = u, with u's groups turned into a list.
RECURSIVE ExistingUsers(_, _)
ExistingUsers(old, m) ==
    IF old = <<>> THEN m
    ELSE ExistingUsers(Tail(old), MapPut(m, Head(old).username, GroupsToList(Head(old))))

\* The first loop writes the list back into each old user's map.
OldUsersAfterDiff(old) == [i \in 1..Len(old) |-> GroupsToList(old[i])]

\* Mutant: any two maps of one username compare equal.
DeepEqual_Always(a, b) == TRUE

\* Mutant: the password is left out of the comparison.
DeepEqual_NoPassword(a, b) ==
    /\ a.username = b.username
    /\ a.console_access = b.console_access
    /\ a.groups = b.groups

\* Mutant: the maps are compared by identity, which never holds.
DeepEqual_Never(a, b) == FALSE

\* reflect.DeepEqual(existingUserMap, newUserMap): same keys, equal values.
DeepEqual(a, b) == a = b

CreateUserRequest(bId, u, ng) ==
    [BrokerId |-> bId, ConsoleAccess |-> u.console_access,
     HasGroups |-> Len(ng) > 0, Groups |-> ng,
     Password |-> u.password, Username |-> u.username]

\* An update request that carries the password and leaves the groups out.
UpdateUserRequest_NoGroups(bId, u, ng) ==
    [BrokerId |-> bId, ConsoleAccess |-> u.console_access, Groups |-> <<>>,
     Password |-> u.password, Username |-> u.username]

UpdateUserRequest(bId, u, ng) ==
    [BrokerId |-> bId, ConsoleAccess |-> u.console_access, Groups |-> ng,
     Password |-> u.password, Username |-> u.username]

DeleteUserInput(bId, username) == [BrokerId |-> bId, Username |-> username]

\* Mutant: a user found in existingUsers is not removed from it.
AfterProcessing_Keep(existing, username) == existing

\* delete(existingUsers, username)
AfterProcessing(existing, username) == MapDelete(existing, username)

\* Second loop, one new user at a time; st = [existing, cr, ur].
DiffStep(bId, st, nu) ==
    LET newUserMap == GroupsToList(nu)
        ng == newUserMap.groups.items
        username == newUserMap.username
    IN  IF username \in DOMAIN st.existing
        THEN [existing |-> AfterProcessing(st.existing, username),
              cr |-> st.cr,
              ur |-> IF ~DeepEqual(st.existing[username], newUserMap)
                     THEN Append(st.ur, UpdateUserRequest(bId, newUserMap, ng))
                     ELSE st.ur]
        ELSE [existing |-> st.existing,
              cr |-> Append(st.cr, CreateUserRequest(bId, newUserMap, ng)),
              ur |-> st.ur]

RECURSIVE DiffLoop(_, _, _)
DiffLoop(bId, st, new) ==
    IF new = <<>> THEN st
    ELSE DiffLoop(bId, DiffStep(bId, st, Head(new)), Tail(new))

\* Sequences listing every element of S once: the orders in which
\* "for username := range existingUsers" may visit the map.
RECURSIVE Orders(_)
Orders(S) ==
    IF S = {} THEN {<<>>}
    ELSE UNION {{<<x>> \o rest : rest \in Orders(S \ {x})} : x \in S}

\* The results diffAwsMqBrokerUsers may return: cr and ur are determined, di
\* lists the usernames left in existingUsers in any order.
diffAwsMqBrokerUsers(bId, old, new) ==
    LET st == DiffLoop(bId, [existing |-> ExistingUsers(old, EmptyMap),
                             cr |-> <<>>, ur |-> <<>>], new)
    IN  { [cr |-> st.cr,
           di |-> [i \in 1..Len(o) |-> DeleteUserInput(bId, o[i])],
           ur |-> st.ur] : o \in Orders(DOMAIN st.existing) }

(***************************************************************************)
(* Inputs                                                                  *)
(***************************************************************************)
RECURSIVE SeqsUpTo(_, _)
SeqsUpTo(S, n) ==
    IF n = 0 THEN {<<>>}
    ELSE LET shorter == SeqsUpTo(S, n - 1)
         IN  shorter \cup {Append(s, x) : s \in shorter, x \in S}

Names(users) == {users[i].username : i \in 1..Len(users)}
UniqueNames(users) == Cardinality(Names(users)) = Len(users)

UsersOf(attrs) == {User(n, a) : n \in Usernames, a \in attrs}

\* User lists with unique usernames.
UserLists(attrs) == {l \in SeqsUpTo(UsersOf(attrs), MaxUsers) : UniqueNames(l)}

(***************************************************************************)
(* The differ on its own: the inputs are drawn, then the differ is called. *)
(***************************************************************************)
NoChange == [security_groups |-> FALSE, configuration |-> FALSE,
             user |-> FALSE, tags |-> FALSE]

\* A remote call as logged, the error a failed call returns, and nil.
Call(op, arg, ok) == [op |-> op, arg |-> arg, ok |-> ok]
ErrOf(c) == [op |-> c.op, arg |-> c.arg]
NilErr == [op |-> "", arg |-> ""]

\* What a handler returned: nothing yet, or an error (nil on success) wrapped
\* by the message of the step that failed.
Running == [returned |-> FALSE, step |-> "", cause |-> NilErr]
\* A handler that reports a failure of its own instead of the error it got.
Return_Masked(step, cause) ==
    [returned |-> TRUE, step |-> step, cause |-> NilErr]

Return(step, cause) == [returned |-> TRUE, step |-> step, cause |-> cause]

NoReturn == [called |-> FALSE, flag |-> FALSE, err |-> NilErr]

BrokerRunning == [status |-> "RUNNING", restart |-> "none"]

Idle ==
    /\ change = NoChange
    /\ apply_immediately = FALSE
    /\ requiresReboot = FALSE
    /\ updatedUsers = FALSE
    /\ usersReturn = NoReturn
    /\ calls = <<>>
    /\ err = Running
    /\ broker = BrokerRunning
    /\ polls = 0
    /\ cycle = 0
    /\ pending = FALSE
    /\ d = [id |-> BrokerId, read |-> FALSE, user |-> <<>>, arn |-> BrokerArn,
            engine_type |-> EngineTypeActivemq]
    /\ remoteUsers = <<>>
    /\ rawUsers = <<>>
    /\ cancelled = -1

InitDiff ==
    /\ pc = "DiffStart"
    /\ oldUsers \in UserLists(UserAttrs)
    /\ newUsers \in UserLists(UserAttrs)
    /\ createL = <<>>
    /\ deleteL = <<>>
    /\ updateL = <<>>
    /\ Idle

DiffCall ==
    /\ pc = "DiffStart"
    /\ \E r \in diffAwsMqBrokerUsers(BrokerId, oldUsers, newUsers) :
          /\ createL' = r.cr
          /\ deleteL' = r.di
          /\ updateL' = r.ur
    /\ oldUsers' = OldUsersAfterDiff(oldUsers)
    /\ pc' = "DiffDone"
    /\ UNCHANGED <<newUsers, change, apply_immediately, requiresReboot,
                   updatedUsers, usersReturn, calls, err, broker, polls,
                   cycle, pending>>
    /\ UNCHANGED lvars

NextDiff == DiffCall

SpecDiff == InitDiff /\ [][NextDiff]_vars

\* The string resourceAwsMqUserHash hashes a user by: console_access, the
\* groups as List() gives them, password and username.  The Set files two
\* users apart when their strings differ.
resourceAwsMqUserHash(u) ==
    <<u.console_access, SetList(u.groups.items), u.password, u.username>>

\* The lists the user Set can hand out as Declared: no two users with the same
\* hash; a username may come twice, with different attributes.
DeclaredLists(attrs) ==
    {l \in SeqsUpTo(UsersOf(attrs), MaxUsers) :
        \A i \in DOMAIN l : \A j \in DOMAIN l :
            i # j => resourceAwsMqUserHash(l[i]) # resourceAwsMqUserHash(l[j])}

\* The differ with such a Declared list.
InitDiffDeclared ==
    /\ pc = "DiffStart"
    /\ oldUsers \in UserLists(CycleAttrs)
    /\ newUsers \in DeclaredLists(UserAttrs)
    /\ createL = <<>>
    /\ deleteL = <<>>
    /\ updateL = <<>>
    /\ Idle

SpecDiffDeclared == InitDiffDeclared /\ [][NextDiff]_vars

\* The differ called a second time with the very collections of the first
\* call.  g.(*schema.Set) on a groups value that the first call replaced by a
\* list is a failed type assertion: the call panics and returns nothing.
TypeAssertionFails(old) == \E i \in DOMAIN old : old[i].groups.type # "Set"

DiffAgain ==
    /\ pc = "DiffDone"
    /\ IF TypeAssertionFails(oldUsers)
       THEN /\ pc' = "DiffPanic"
            /\ UNCHANGED <<oldUsers, createL, deleteL, updateL>>
       ELSE /\ \E r \in diffAwsMqBrokerUsers(BrokerId, oldUsers, newUsers) :
                  /\ createL' = r.cr
                  /\ deleteL' = r.di
                  /\ updateL' = r.ur
            /\ oldUsers' = OldUsersAfterDiff(oldUsers)
            /\ pc' = "DiffAgainDone"
    /\ UNCHANGED <<newUsers, change, apply_immediately, requiresReboot,
                   updatedUsers, usersReturn, calls, err, broker, polls,
                   cycle, pending>>
    /\ UNCHANGED lvars

InitDiffTwice ==
    /\ pc = "DiffStart"
    /\ oldUsers \in UserLists(CycleAttrs)
    /\ newUsers \in UserLists(CycleAttrs)
    /\ createL = <<>>
    /\ deleteL = <<>>
    /\ updateL = <<>>
    /\ Idle

NextDiffTwice ==
    \/ DiffCall
    \/ DiffAgain

SpecDiffTwice == InitDiffTwice /\ [][NextDiffTwice]_vars

(***************************************************************************)
(* updateAwsMqBrokerUsers, one remote call at a time.  createL, deleteL    *)
(* and updateL hold what the three loops have still to issue.              *)
(***************************************************************************)
CreatePhase == createL # <<>>

DeletePhase == createL = <<>> /\ deleteL # <<>>

\* Mutant: the update loop does not wait for the delete loop.
UpdatePhase_Early == createL = <<>> /\ updateL # <<>>

UpdatePhase == createL = <<>> /\ deleteL = <<>> /\ updateL # <<>>

\* Mutant: the error of a call is not looked at.
CallFailed_Ignored(ok) == FALSE

\* if err != nil
CallFailed(ok) == ~ok

\* updatedUsers = true, the statement between the call and its error check.
FlagAfterCall(flag, ok) == TRUE

\* One user call and what the loop does with its outcome: on an error the
\* function returns the flag and the error, its locals are gone.
UserCallStep(op, username, ok, cr, di, ur) ==
    LET c == Call(op, username, ok)
        flag == FlagAfterCall(updatedUsers, ok)
    IN  /\ pc = "Users"
        /\ calls' = Append(calls, c)
        /\ updatedUsers' = flag
        /\ IF CallFailed(ok)
           THEN /\ usersReturn' = [called |-> TRUE, flag |-> flag, err |-> ErrOf(c)]
                /\ createL' = <<>> /\ deleteL' = <<>> /\ updateL' = <<>>
                /\ pc' = "UsersReturned"
           ELSE /\ createL' = cr /\ deleteL' = di /\ updateL' = ur
                /\ UNCHANGED <<usersReturn, pc>>
        /\ UNCHANGED <<oldUsers, newUsers, change, apply_immediately,
                       requiresReboot, err, broker, polls, cycle, pending>>

\* The same, in a run that does not follow the remote's users.
UserCall(op, username, ok, cr, di, ur) ==
    /\ UserCallStep(op, username, ok, cr, di, ur)
    /\ UNCHANGED lvars

CreateUser ==
    /\ CreatePhase
    /\ \E ok \in BOOLEAN :
          UserCall("CreateUser", Head(createL).Username, ok,
                   Tail(createL), deleteL, updateL)

DeleteUser ==
    /\ DeletePhase
    /\ \E ok \in BOOLEAN :
          UserCall("DeleteUser", Head(deleteL).Username, ok,
                   createL, Tail(deleteL), updateL)

UpdateUser ==
    /\ UpdatePhase
    /\ \E ok \in BOOLEAN :
          UserCall("UpdateUser", Head(updateL).Username, ok,
                   createL, deleteL, Tail(updateL))

\* return updatedUsers, nil
ReturnUsers ==
    /\ pc = "Users"
    /\ createL = <<>> /\ deleteL = <<>> /\ updateL = <<>>
    /\ usersReturn' = [called |-> TRUE, flag |-> updatedUsers, err |-> NilErr]
    /\ pc' = "UsersReturned"
    /\ UNCHANGED <<oldUsers, newUsers, createL, deleteL, updateL, change,
                   apply_immediately, requiresReboot, updatedUsers, calls, err,
                   broker, polls, cycle, pending>>
    /\ UNCHANGED lvars

(***************************************************************************)
(* resourceAwsMqBrokerUpdate.  A cycle starts with what d reports for it:  *)
(* which attributes changed, and apply_immediately.                        *)
(***************************************************************************)
RebootAccepted(log) ==
    \E i \in 1..Len(log) : log[i].op = "RebootBroker" /\ log[i].ok

\* Mutant: a restart left over by an earlier cycle is carried into this one.
InitialRequiresReboot_Carried(left) == left

\* requiresReboot := false
InitialRequiresReboot(left) == FALSE

StartUpdate ==
    /\ pc \in {"Idle", "Returned"}
    /\ cycle < MaxCycles
    /\ cycle' = cycle + 1
    /\ pending' = IF RebootAccepted(calls) THEN FALSE
                  ELSE pending \/ (requiresReboot /\ ~apply_immediately)
    /\ requiresReboot' = InitialRequiresReboot(pending')
    /\ change' \in [{"security_groups", "configuration", "user", "tags"} -> BOOLEAN]
    /\ apply_immediately' \in BOOLEAN
    /\ updatedUsers' = FALSE
    /\ usersReturn' = NoReturn
    /\ calls' = <<>>
    /\ err' = Running
    /\ polls' = 0
    /\ pc' = "SecurityGroups"
    /\ UNCHANGED <<oldUsers, newUsers, createL, deleteL, updateL, broker>>
    /\ UNCHANGED lvars

\* Mutant: a security group change asks for a restart.
RebootAfterSecurityGroups_Set(r) == TRUE

\* The security_groups block leaves requiresReboot alone.
RebootAfterSecurityGroups(r) == r

UpdateSecurityGroups ==
    /\ pc = "SecurityGroups"
    /\ \E has \in {change.security_groups} :
          /\ IF has
             THEN \E ok \in BOOLEAN :
                    LET c == Call("UpdateBroker", "security_groups", ok)
                    IN  /\ calls' = Append(calls, c)
                        /\ IF ok
                           THEN /\ pc' = "Configuration"
                                /\ requiresReboot' = RebootAfterSecurityGroups(requiresReboot)
                                /\ err' = err
                           ELSE /\ pc' = "Returned"
                                /\ err' = Return("security groups", ErrOf(c))
                                /\ requiresReboot' = requiresReboot
             ELSE /\ pc' = "Configuration"
                  /\ UNCHANGED <<calls, err, requiresReboot>>
    /\ UNCHANGED <<oldUsers, newUsers, createL, deleteL, updateL, change,
                   apply_immediately, updatedUsers, usersReturn, broker, polls,
                   cycle, pending>>
    /\ UNCHANGED lvars

UpdateConfiguration ==
    /\ pc = "Configuration"
    /\ \E has \in {change.configuration} :
          /\ IF has
             THEN \E ok \in BOOLEAN :
                    LET c == Call("UpdateBroker", "configuration", ok)
                    IN  /\ calls' = Append(calls, c)
                        /\ IF ok
                           THEN /\ pc' = "User"
                                /\ requiresReboot' = TRUE
                                /\ err' = err
                           ELSE /\ pc' = "Returned"
                                /\ err' = Return("configuration", ErrOf(c))
                                /\ requiresReboot' = requiresReboot
             ELSE /\ pc' = "User"
                  /\ UNCHANGED <<calls, err, requiresReboot>>
    /\ UNCHANGED <<oldUsers, newUsers, createL, deleteL, updateL, change,
                   apply_immediately, updatedUsers, usersReturn, broker, polls,
                   cycle, pending>>
    /\ UNCHANGED lvars

\* if d.HasChange("user"): updateAwsMqBrokerUsers starts and diffs o against n.
UpdateUsers ==
    /\ pc = "User"
    /\ \E has \in {change.user} :
          /\ IF has
             THEN /\ \E o \in UserLists(CycleAttrs), n \in UserLists(CycleAttrs) :
                     \E r \in diffAwsMqBrokerUsers(BrokerId, o, n) :
                        /\ createL' = r.cr
                        /\ deleteL' = r.di
                        /\ updateL' = r.ur
                  /\ updatedUsers' = FALSE
                  /\ pc' = "Users"
             ELSE /\ pc' = "Reboot"
                  /\ UNCHANGED <<createL, deleteL, updateL, updatedUsers>>
    /\ UNCHANGED <<oldUsers, newUsers, change, apply_immediately,
                   requiresReboot, usersReturn, calls, err, broker, polls,
                   cycle, pending>>
    /\ UNCHANGED lvars

\* The caller's handling of what updateAwsMqBrokerUsers returned.
UsersReturned ==
    /\ pc = "UsersReturned"
    /\ IF usersReturn.err # NilErr
       THEN /\ err' = Return("user", usersReturn.err)
            /\ pc' = "Returned"
            /\ requiresReboot' = requiresReboot
       ELSE /\ requiresReboot' = (requiresReboot \/ usersReturn.flag)
            /\ pc' = "Reboot"
            /\ err' = err
    /\ UNCHANGED <<oldUsers, newUsers, createL, deleteL, updateL, change,
                   apply_immediately, updatedUsers, usersReturn, calls, broker,
                   polls, cycle, pending>>
    /\ UNCHANGED lvars

\* d.Get("apply_immediately").(bool) && requiresReboot
RebootWanted(ai, r) == ai /\ r

Reboot ==
    /\ pc = "Reboot"
    /\ \E ai \in {apply_immediately} :
          /\ IF RebootWanted(ai, requiresReboot)
             THEN \E ok \in BOOLEAN :
                    LET c == Call("RebootBroker", "", ok)
                    IN  /\ calls' = Append(calls, c)
                        /\ IF ok
                           THEN /\ broker' = [broker EXCEPT !.restart = "requested"]
                                /\ pc' = "WaitReboot"
                                /\ err' = err
                           ELSE /\ broker' = broker
                                /\ pc' = "Returned"
                                /\ err' = Return("reboot", ErrOf(c))
             ELSE /\ pc' = "Tags"
                  /\ UNCHANGED <<calls, err, broker>>
    /\ polls' = 0
    /\ UNCHANGED <<oldUsers, newUsers, createL, deleteL, updateL, change,
                   apply_immediately, requiresReboot, updatedUsers, usersReturn,
                   cycle, pending>>
    /\ UNCHANGED lvars

(***************************************************************************)
(* The wait after RebootBroker: StateChangeConf.WaitForState               *)
(***************************************************************************)
RebootPending == {"RUNNING", "REBOOT_IN_PROGRESS"}

\* Mutant: a broker seen rebooting counts as arrived.
RebootTarget_Rebooting == {"RUNNING", "REBOOT_IN_PROGRESS"}

RebootTarget == {"RUNNING"}

\* One refresh of the poller: the target states are looked at first, then the
\* pending ones; a state in neither set is unexpected.
Classify(status, pendingStates, targetStates) ==
    IF status \in targetStates THEN "done"
    ELSE IF status \in pendingStates THEN "pending"
    ELSE "unexpected"

UnexpectedState(status) == [op |-> "UnexpectedState", arg |-> status]
TimeoutError == [op |-> "Timeout", arg |-> ""]

PollReboot ==
    /\ pc = "WaitReboot"
    /\ polls < MaxPolls
    /\ \/ LET c == Call("DescribeBroker", "", FALSE)
          IN  /\ calls' = Append(calls, c)
              /\ err' = Return("wait", ErrOf(c))
              /\ pc' = "Returned"
              /\ polls' = polls
       \/ LET c == Call("DescribeBroker", broker.status, TRUE)
              class == Classify(broker.status, RebootPending, RebootTarget)
          IN  /\ calls' = Append(calls, c)
              /\ CASE class = "done" ->
                        pc' = "Tags" /\ err' = err /\ polls' = polls
                   [] class = "pending" ->
                        pc' = pc /\ err' = err /\ polls' = polls + 1
                   [] OTHER ->
                        /\ pc' = "Returned"
                        /\ err' = Return("wait", UnexpectedState(broker.status))
                        /\ polls' = polls
    /\ UNCHANGED <<oldUsers, newUsers, createL, deleteL, updateL, change,
                   apply_immediately, requiresReboot, updatedUsers, usersReturn,
                   broker, cycle, pending>>
    /\ UNCHANGED lvars

\* The 30 minutes elapse before a target state was seen.
TimeoutReboot ==
    /\ pc = "WaitReboot"
    /\ err' = Return("wait", TimeoutError)
    /\ pc' = "Returned"
    /\ UNCHANGED <<oldUsers, newUsers, createL, deleteL, updateL, change,
                   apply_immediately, requiresReboot, updatedUsers, usersReturn,
                   calls, broker, polls, cycle, pending>>
    /\ UNCHANGED lvars

UpdateTags ==
    /\ pc = "Tags"
    /\ \E has \in {change.tags} :
          /\ IF has
             THEN \E ok \in BOOLEAN :
                    LET c == Call("UpdateTags", "", ok)
                    IN  /\ calls' = Append(calls, c)
                        /\ err' = IF ok THEN Return("", NilErr)
                                  ELSE Return("tags", ErrOf(c))
             ELSE /\ calls' = calls
                  /\ err' = Return("", NilErr)
    /\ pc' = "Returned"
    /\ UNCHANGED <<oldUsers, newUsers, createL, deleteL, updateL, change,
                   apply_immediately, requiresReboot, updatedUsers, usersReturn,
                   broker, polls, cycle, pending>>
    /\ UNCHANGED lvars

(***************************************************************************)
(* The remote broker: a restart that was asked for starts and ends on its  *)
(* own; while a wait runs the broker may also leave for a state the wait   *)
(* does not expect.                                                        *)
(***************************************************************************)
BrokerStartsReboot ==
    /\ broker.restart = "requested"
    /\ broker.status = "RUNNING"
    /\ broker' = [status |-> "REBOOT_IN_PROGRESS", restart |-> "started"]
    /\ UNCHANGED <<pc, oldUsers, newUsers, createL, deleteL, updateL, change,
                   apply_immediately, requiresReboot, updatedUsers, usersReturn,
                   calls, err, polls, cycle, pending>>
    /\ UNCHANGED lvars

BrokerEndsReboot ==
    /\ broker.restart = "started"
    /\ broker.status = "REBOOT_IN_PROGRESS"
    /\ broker' = [status |-> "RUNNING", restart |-> "done"]
    /\ UNCHANGED <<pc, oldUsers, newUsers, createL, deleteL, updateL, change,
                   apply_immediately, requiresReboot, updatedUsers, usersReturn,
                   calls, err, polls, cycle, pending>>
    /\ UNCHANGED lvars

BrokerLeaves ==
    /\ pc = "WaitReboot"
    /\ broker.status # "DELETION_IN_PROGRESS"
    /\ broker' = [broker EXCEPT !.status = "DELETION_IN_PROGRESS"]
    /\ UNCHANGED <<pc, oldUsers, newUsers, createL, deleteL, updateL, change,
                   apply_immediately, requiresReboot, updatedUsers, usersReturn,
                   calls, err, polls, cycle, pending>>
    /\ UNCHANGED lvars

Init ==
    /\ pc = "Idle"
    /\ oldUsers = <<>>
    /\ newUsers = <<>>
    /\ createL = <<>>
    /\ deleteL = <<>>
    /\ updateL = <<>>
    /\ Idle

Next ==
    \/ StartUpdate
    \/ UpdateSecurityGroups
    \/ UpdateConfiguration
    \/ UpdateUsers
    \/ CreateUser
    \/ DeleteUser
    \/ UpdateUser
    \/ ReturnUsers
    \/ UsersReturned
    \/ Reboot
    \/ PollReboot
    \/ TimeoutReboot
    \/ UpdateTags
    \/ BrokerStartsReboot
    \/ BrokerEndsReboot
    \/ BrokerLeaves

Spec == Init /\ [][Next]_vars

\* The poller of Update keeps going: a round or the timeout is always taken.
FairUpdate == Spec /\ WF_vars(PollReboot \/ TimeoutReboot)

\* ---------------------------------------------------------------------------
\* Create, Read and Delete: what the remote answers, and the pure functions
\* between the resource data and the remote's users.

\* Usernames and attributes of the users in the lifecycle runs.
LifeNames == {"alice", "bob"}
StateAttrs ==
    {[console_access |-> FALSE, groups |-> <<"admin">>, password |-> "pw1"],
     [console_access |-> FALSE, groups |-> <<"admin">>, password |-> ""]}
RemoteAttrs ==
    {[console_access |-> FALSE, groups |-> <<"admin">>],
     [console_access |-> TRUE, groups |-> <<>>]}

\* d.Get("user"): a schema.Set of user maps, no two with the same username.
StateUsers ==
    {{l[i] : i \in DOMAIN l} :
        l \in {s \in SeqsUpTo({User(n, a) : n \in LifeNames, a \in StateAttrs},
                              MaxUsers) : UniqueNames(s)}}

\* *mq.User as DescribeUser returns it: no password.
MqUser(name, consoleAccess, groups) ==
    [Username |-> name, ConsoleAccess |-> consoleAccess, Groups |-> groups]
RemoteNames(users) == {users[i].Username : i \in DOMAIN users}
RemoteLists ==
    {l \in SeqsUpTo({MqUser(n, a.console_access, a.groups) :
                        n \in LifeNames, a \in RemoteAttrs}, MaxUsers) :
        Cardinality(RemoteNames(l)) = Len(l)}

\* expandMqUsers, as far as the remote reports it back: the password is sent
\* and never returned.
expandMqUsers(cfg) ==
    [i \in DOMAIN cfg |->
        MqUser(cfg[i].username, cfg[i].console_access,
               SetList(cfg[i].groups.items))]

\* The first loop of flattenMqUsers: username -> password, a later entry
\* replacing an earlier one.
RECURSIVE ExistingPairs(_, _)
ExistingPairs(cfgUsers, m) ==
    IF cfgUsers = <<>> THEN m
    ELSE ExistingPairs(Tail(cfgUsers),
                       MapPut(m, Head(cfgUsers).username,
                              Head(cfgUsers).password))

\* No password carried forward at all.
CarriedPassword_None(pairs, username) == ""

\* A password taken from anywhere but the last-declared users.
CarriedPassword_Default(pairs, username) == "pw2"

CarriedPassword(pairs, username) ==
    IF username \in DOMAIN pairs THEN pairs[username] ELSE ""

\* One map of flattenMqUsers' result; a key is present only where the code
\* sets it.
FlatUser(u, pairs) ==
    LET password == CarriedPassword(pairs, u.Username)
        m0 == [username |-> u.Username, console_access |-> u.ConsoleAccess]
        m1 == IF password # "" THEN m0 @@ [password |-> password] ELSE m0
    IN  IF Len(u.Groups) > 0
        THEN m1 @@ [groups |-> [type |-> "Set", items |-> u.Groups]]
        ELSE m1

flattenMqUsers(users, cfgUsers) ==
    {FlatUser(users[i], ExistingPairs(cfgUsers, EmptyMap)) : i \in DOMAIN users}

\* d.Get on a user map: an absent key reads as the zero value.
GetUser(m) ==
    [username |-> m.username,
     console_access |-> m.console_access,
     groups |-> IF "groups" \in DOMAIN m THEN m.groups
                ELSE [type |-> "Set", items |-> <<>>],
     password |-> IF "password" \in DOMAIN m THEN m.password ELSE ""]

\* Errors of the remote API, and the helper that recognises them.
AwsErr(code, message) == [code |-> code, message |-> message]
NotFound == AwsErr("NotFoundException", "Not Found")
Forbidden == AwsErr("ForbiddenException", "Forbidden")
InternalError == AwsErr("InternalServerErrorException", "Internal")
NoAwsErr == AwsErr("", "")
isAWSErr(e, code, message) ==
    e.code = code /\ (message = "" \/ e.message = message)

\* The broker does not exist at the remote.
Absent == broker.status = "ABSENT"
BrokerAbsent == [status |-> "ABSENT", restart |-> "none"]

\* What DescribeBroker may answer: the status, or NotFound (which the remote
\* may send as Forbidden) for a broker that does not exist, or a failure.
DescribeBrokerOutput ==
    IF Absent
    THEN {[status |-> "", error |-> e] : e \in {NotFound, Forbidden, InternalError}}
    ELSE {[status |-> broker.status, error |-> NoAwsErr],
          [status |-> "", error |-> InternalError]}

\* The log entry of one DescribeBroker call.
Described(out) ==
    IF out.error = NoAwsErr THEN Call("DescribeBroker", out.status, TRUE)
    ELSE Call("DescribeBroker", out.error.code, FALSE)

\* What the Update cycle and the differ own; the lifecycle leaves it alone.
uvars == <<oldUsers, newUsers, createL, deleteL, updateL, change,
           apply_immediately, requiresReboot, updatedUsers, usersReturn,
           pending>>

\* d.Get("user").(*schema.Set).List(): the maps of the set, in the set's order.
UserList == Orders({GetUser(m) : m \in d.user})

\* A handler is entered: Terraform calls one at a time.
HandlerStarts ==
    /\ pc \in {"Idle", "Returned"}
    /\ cycle < MaxCycles
    /\ cycle' = cycle + 1
    /\ polls' = 0
    /\ cancelled' = -1
    /\ rawUsers' = <<>>

\* resourceAwsMqBrokerCreate up to the wait: CreateBroker, and the id it gives.
CreateBroker ==
    /\ HandlerStarts
    /\ d.id = ""
    /\ \E ok \in (IF Absent THEN BOOLEAN ELSE {FALSE}) :
          LET c == Call("CreateBroker", "", ok)
          IN  /\ calls' = <<c>>
              /\ IF ok
                 THEN /\ d' = [d EXCEPT !.id = BrokerId, !.read = FALSE,
                                          !.arn = BrokerArn]
                      /\ broker' = [status |-> "CREATION_IN_PROGRESS",
                                    restart |-> "none"]
                      /\ \E cfg \in UserList :
                            remoteUsers' = expandMqUsers(cfg)
                      /\ err' = Running
                      /\ pc' = "WaitCreate"
                 ELSE /\ d' = [d EXCEPT !.read = FALSE]
                      /\ err' = Return("create", ErrOf(c))
                      /\ pc' = "Returned"
                      /\ UNCHANGED <<broker, remoteUsers>>
    /\ UNCHANGED uvars

CreatePending == {"CREATION_IN_PROGRESS", "REBOOT_IN_PROGRESS"}

\* A wait that takes a status still in progress for the end.
CreateTarget_InProgress == {"RUNNING", "CREATION_IN_PROGRESS"}

CreateTarget == {"RUNNING"}

\* One round of the wait in Create: the Refresh function and its
\* classification.  A round that ends the wait well goes on to Read.
PollCreate ==
    /\ pc = "WaitCreate"
    /\ polls < MaxPolls
    /\ \E out \in DescribeBrokerOutput :
          LET c == Described(out)
              class == Classify(out.status, CreatePending, CreateTarget)
          IN  /\ calls' = Append(calls, c)
              /\ IF out.error # NoAwsErr
                 THEN /\ err' = Return("wait", ErrOf(c))
                      /\ pc' = "Returned"
                      /\ polls' = polls
                 ELSE CASE class = "done" ->
                             pc' = "Read" /\ err' = err /\ polls' = polls
                        [] class = "pending" ->
                             pc' = pc /\ err' = err /\ polls' = polls + 1
                        [] OTHER ->
                             /\ pc' = "Returned"
                             /\ err' = Return("wait", UnexpectedState(out.status))
                             /\ polls' = polls
    /\ UNCHANGED <<broker, cycle, d, remoteUsers, rawUsers, cancelled>>
    /\ UNCHANGED uvars

\* The 30 minutes of the wait in Create elapse.
TimeoutCreate ==
    /\ pc = "WaitCreate"
    /\ err' = Return("wait", TimeoutError)
    /\ pc' = "Returned"
    /\ UNCHANGED <<calls, broker, polls, cycle, d, remoteUsers, rawUsers,
                   cancelled>>
    /\ UNCHANGED uvars

\* The remote finishes, or gives up, the creation.
BrokerCreated ==
    /\ broker.status = "CREATION_IN_PROGRESS"
    /\ broker' = [broker EXCEPT !.status = "RUNNING"]
    /\ UNCHANGED <<pc, calls, err, polls, cycle, d, remoteUsers, rawUsers,
                   cancelled>>
    /\ UNCHANGED uvars

BrokerCreationFails ==
    /\ broker.status = "CREATION_IN_PROGRESS"
    /\ broker' = [broker EXCEPT !.status = "CREATION_FAILED"]
    /\ UNCHANGED <<pc, calls, err, polls, cycle, d, remoteUsers, rawUsers,
                   cancelled>>
    /\ UNCHANGED uvars

\* resourceAwsMqBrokerRead is called for a resource that has an id.
StartRead ==
    /\ HandlerStarts
    /\ d.id # ""
    /\ d' = [d EXCEPT !.read = FALSE]
    /\ calls' = <<>>
    /\ err' = Running
    /\ pc' = "Read"
    /\ UNCHANGED <<broker, remoteUsers>>
    /\ UNCHANGED uvars

\* The error of DescribeBroker means that the broker is not there.
ReadAbsent_ForbiddenOnly(e) == isAWSErr(e, "ForbiddenException", "Forbidden")

ReadAbsent(e) ==
    \/ isAWSErr(e, "NotFoundException", "")
    \/ isAWSErr(e, "ForbiddenException", "Forbidden")

\* Read, lines 349-393: DescribeBroker, and the attributes it gives.
ReadDescribeBroker ==
    /\ pc = "Read"
    /\ \E out \in DescribeBrokerOutput :
          LET c == Described(out)
          IN  /\ calls' = Append(calls, c)
              /\ IF out.error = NoAwsErr
                 THEN /\ d' = [d EXCEPT !.read = TRUE, !.arn = BrokerArn]
                      /\ err' = err
                      /\ pc' = "ReadUsers"
                 ELSE IF ReadAbsent(out.error)
                 THEN /\ d' = [d EXCEPT !.id = ""]
                      /\ err' = Return("", NilErr)
                      /\ pc' = "Returned"
                 ELSE /\ d' = d
                      /\ err' = Return("describe", ErrOf(c))
                      /\ pc' = "Returned"
    /\ rawUsers' = <<>>
    /\ UNCHANGED <<broker, polls, cycle, remoteUsers, cancelled>>
    /\ UNCHANGED uvars

\* Read, lines 395-410: one DescribeUser per user of the broker.
DescribeUser ==
    /\ pc = "ReadUsers"
    /\ Len(rawUsers) < Len(remoteUsers)
    /\ LET u == remoteUsers[Len(rawUsers) + 1]
       IN  \E ok \in BOOLEAN :
              LET c == Call("DescribeUser", u.Username, ok)
              IN  /\ calls' = Append(calls, c)
                  /\ IF ok
                     THEN /\ rawUsers' = Append(rawUsers,
                                 MqUser(u.Username, u.ConsoleAccess, u.Groups))
                          /\ err' = err
                          /\ pc' = pc
                     ELSE /\ rawUsers' = rawUsers
                          /\ err' = Return("user", ErrOf(c))
                          /\ pc' = "Returned"
    /\ UNCHANGED <<broker, polls, cycle, d, remoteUsers, cancelled>>
    /\ UNCHANGED uvars

\* Read, lines 412-419: the users are written to the resource data.
SetUsers ==
    /\ pc = "ReadUsers"
    /\ Len(rawUsers) = Len(remoteUsers)
    /\ \E cfgUsers \in UserList :
          d' = [d EXCEPT !.user = flattenMqUsers(rawUsers, cfgUsers)]
    /\ err' = Return("", NilErr)
    /\ pc' = "Returned"
    /\ UNCHANGED <<calls, broker, polls, cycle, remoteUsers, rawUsers,
                   cancelled>>
    /\ UNCHANGED uvars

\* resourceAwsMqBrokerDelete up to the wait: DeleteBroker.
DeleteBroker ==
    /\ HandlerStarts
    /\ d.id # ""
    /\ \E ok \in (IF Absent THEN {FALSE} ELSE BOOLEAN) :
          LET c == Call("DeleteBroker", "", ok)
          IN  /\ calls' = <<c>>
              /\ IF ok
                 THEN /\ err' = Running
                      /\ pc' = "WaitDelete"
                 ELSE /\ err' = Return("delete", ErrOf(c))
                      /\ pc' = "Returned"
    /\ d' = [d EXCEPT !.read = FALSE]
    /\ UNCHANGED <<broker, remoteUsers>>
    /\ UNCHANGED uvars

DeletePending == {"RUNNING", "REBOOT_IN_PROGRESS", "DELETION_IN_PROGRESS"}

\* A wait that takes a broker still being deleted for a deleted one.
DeleteTarget_Deleting == {"", "DELETION_IN_PROGRESS"}

DeleteTarget == {""}

\* The error of DescribeBroker that the Refresh function of
\* waitForMqBrokerDeletion turns into the status "".
PollAbsent_Any(e) == TRUE

PollAbsent(e) == isAWSErr(e, "NotFoundException", "")

\* One round of waitForMqBrokerDeletion.
PollDelete ==
    /\ pc = "WaitDelete"
    /\ polls < MaxPolls
    /\ \E out \in DescribeBrokerOutput :
          LET c == Described(out)
              failed == out.error # NoAwsErr /\ ~PollAbsent(out.error)
              class == Classify(out.status, DeletePending, DeleteTarget)
          IN  /\ calls' = Append(calls, c)
              /\ IF failed
                 THEN /\ err' = Return("wait", ErrOf(c))
                      /\ pc' = "Returned"
                      /\ polls' = polls
                 ELSE CASE class = "done" ->
                             /\ pc' = "Returned"
                             /\ err' = Return("", NilErr)
                             /\ polls' = polls
                        [] class = "pending" ->
                             pc' = pc /\ err' = err /\ polls' = polls + 1
                        [] OTHER ->
                             /\ pc' = "Returned"
                             /\ err' = Return("wait", UnexpectedState(out.status))
                             /\ polls' = polls
    /\ UNCHANGED <<broker, cycle, d, remoteUsers, rawUsers, cancelled>>
    /\ UNCHANGED uvars

\* The 30 minutes of waitForMqBrokerDeletion elapse.
TimeoutDelete ==
    /\ pc = "WaitDelete"
    /\ err' = Return("wait", TimeoutError)
    /\ pc' = "Returned"
    /\ UNCHANGED <<calls, broker, polls, cycle, d, remoteUsers, rawUsers,
                   cancelled>>
    /\ UNCHANGED uvars

\* The remote carries out the deletion it accepted.
BrokerStartsDeletion ==
    /\ pc = "WaitDelete"
    /\ broker.status \in {"RUNNING", "CREATION_FAILED", "CREATION_IN_PROGRESS"}
    /\ broker' = [broker EXCEPT !.status = "DELETION_IN_PROGRESS"]
    /\ UNCHANGED <<pc, calls, err, polls, cycle, d, remoteUsers, rawUsers,
                   cancelled>>
    /\ UNCHANGED uvars

BrokerGone ==
    /\ broker.status = "DELETION_IN_PROGRESS"
    /\ broker' = BrokerAbsent
    /\ UNCHANGED <<pc, calls, err, polls, cycle, d, remoteUsers, rawUsers,
                   cancelled>>
    /\ UNCHANGED uvars

\* The caller asks the running operation to stop while it waits.  The
\* handlers are the ones without a context (Create, Update, Delete of
\* schema.Resource) and wait with WaitForState(): nothing in them reads the
\* request.
Cancel ==
    /\ pc \in {"WaitCreate", "WaitDelete"}
    /\ cancelled = -1
    /\ cancelled' = Len(calls)
    /\ UNCHANGED <<pc, calls, err, broker, polls, cycle, d, remoteUsers,
                   rawUsers>>
    /\ UNCHANGED uvars

\* A resource not yet created, with the users of its configuration, or one
\* that exists (imported, or created earlier) with the users the remote has.
InitLife ==
    /\ pc = "Idle"
    /\ oldUsers = <<>> /\ newUsers = <<>>
    /\ createL = <<>> /\ deleteL = <<>> /\ updateL = <<>>
    /\ change = NoChange
    /\ apply_immediately = FALSE
    /\ requiresReboot = FALSE
    /\ updatedUsers = FALSE
    /\ usersReturn = NoReturn
    /\ calls = <<>>
    /\ err = Running
    /\ polls = 0
    /\ cycle = 0
    /\ pending = FALSE
    /\ rawUsers = <<>>
    /\ cancelled = -1
    /\ \E users \in StateUsers :
          \/ /\ d = [id |-> "", read |-> FALSE, user |-> users, arn |-> "",
                    engine_type |-> EngineTypeActivemq]
             /\ broker = BrokerAbsent
             /\ remoteUsers = <<>>
          \/ /\ d = [id |-> BrokerId, read |-> FALSE, user |-> users,
                    arn |-> BrokerArn, engine_type |-> EngineTypeActivemq]
             /\ broker = BrokerRunning
             /\ remoteUsers \in RemoteLists

NextLife ==
    \/ CreateBroker
    \/ PollCreate
    \/ TimeoutCreate
    \/ BrokerCreated
    \/ BrokerCreationFails
    \/ StartRead
    \/ ReadDescribeBroker
    \/ DescribeUser
    \/ SetUsers
    \/ DeleteBroker
    \/ PollDelete
    \/ TimeoutDelete
    \/ BrokerStartsDeletion
    \/ BrokerGone
    \/ Cancel

SpecLife == InitLife /\ [][NextLife]_vars

\* A wait runs: WaitForState keeps fetching, or its timer fires, until it
\* returns.  The remote and the caller are under no such obligation.
FairLife ==
    /\ SpecLife
    /\ WF_vars(PollCreate \/ TimeoutCreate)
    /\ WF_vars(PollDelete \/ TimeoutDelete)

\* ---------------------------------------------------------------------------
\* The plan of the "user" attribute: its DiffSuppressFunc, and the Update
\* cycle the plan leads to.

\* The engine types a configuration may name: the schema validates
\* engine_type against mq.EngineType_Values() ignoring case.
EngineTypes ==
    {EngineTypeRabbitmq,
     <<"R", "a", "b", "b", "i", "t", "M", "Q">>,
     <<"r", "a", "b", "b", "i", "t", "m", "q">>,
     EngineTypeActivemq,
     <<"A", "c", "t", "i", "v", "e", "M", "Q">>}

\* One letter under simple case folding.
Fold(c) ==
    CASE c = "a" -> "A" [] c = "b" -> "B" [] c = "c" -> "C" [] c = "e" -> "E"
      [] c = "i" -> "I" [] c = "m" -> "M" [] c = "q" -> "Q" [] c = "r" -> "R"
      [] c = "t" -> "T" [] c = "v" -> "V" [] OTHER -> c

\* A comparison that tells upper from lower case.
EqualFold_Exact(s, t) == s = t

\* strings.EqualFold
EqualFold(s, t) ==
    /\ Len(s) = Len(t)
    /\ \A i \in 1..Len(s) : Fold(s[i]) = Fold(t[i])

\* The DiffSuppressFunc of "user"; it looks at neither the key nor the values.
DiffSuppressFunc(rd) ==
    EqualFold(rd.engine_type, EngineTypeRabbitmq) /\ rd.arn # ""

\* The user lists a plan compares: none, or one user.
PlanLists == {<<>>} \cup {<<u>> : u \in UsersOf(CycleAttrs)}

\* Two lists hold the same users, as the sets they are.
SameUsers(o, n) ==
    {resourceAwsMqUserHash(o[i]) : i \in DOMAIN o}
        = {resourceAwsMqUserHash(n[i]) : i \in DOMAIN n}

\* The plan's difference of the users: the Sets differ and the difference is
\* not suppressed.
PlanUserDiff(rd, o, n) == ~SameUsers(o, n) /\ ~DiffSuppressFunc(rd)

\* The new value d.GetChange("user") gives in Update: the configured users,
\* or the users of the state when the plan dropped the difference.
PlannedUsers(rd, o, n) == IF DiffSuppressFunc(rd) THEN o ELSE n

\* d.HasChange("user") in resourceAwsMqBrokerUpdate: the two Sets of
\* d.GetChange are compared as they are, and two Sets that hold a user never
\* compare equal, each user holding a groups Set of its own.  It reports a
\* change whenever Update runs with a user in the state or in the plan.
HasUserChange(rd, o, n) == ~(o = <<>> /\ PlannedUsers(rd, o, n) = <<>>)

\* What d reports of a plan with the user lists o and n and a change t of the
\* tags: Update runs when the plan holds a difference, and d.HasChange is
\* asked in it; without Update the plan's difference stands.
PlannedChange(rd, o, n, t) ==
    LET diff == PlanUserDiff(rd, o, n)
        entered == rd.id # "" /\ (diff \/ t)
    IN  [NoChange EXCEPT !["user"] = IF entered THEN HasUserChange(rd, o, n)
                                     ELSE diff,
                         !["tags"] = t]

\* Terraform plans a configuration in which the users and the tags may differ
\* from the state: state users o against configured users n.  For a resource that
\* exists and has a change, Update is entered; the plan of a resource not yet
\* created is kept as it is.
PlanUsers ==
    /\ pc \in {"Idle", "Returned"}
    /\ cycle < MaxCycles
    /\ cycle' = cycle + 1
    /\ \E o \in PlanLists, n \in PlanLists :
          /\ oldUsers' = o
          /\ newUsers' = n
          /\ \E t \in BOOLEAN : change' = PlannedChange(d, o, n, t)
    /\ apply_immediately' \in BOOLEAN
    /\ pending' = IF RebootAccepted(calls) THEN FALSE
                  ELSE pending \/ (requiresReboot /\ ~apply_immediately)
    /\ requiresReboot' = InitialRequiresReboot(pending')
    /\ updatedUsers' = FALSE
    /\ usersReturn' = NoReturn
    /\ calls' = <<>>
    /\ polls' = 0
    /\ IF d.id = "" THEN pc' = "Planned" /\ err' = Running
       ELSE IF change' = NoChange THEN pc' = "Returned" /\ err' = Return("", NilErr)
       ELSE pc' = "SecurityGroups" /\ err' = Running
    /\ UNCHANGED <<createL, deleteL, updateL, broker>>
    /\ UNCHANGED lvars

\* The user step of Update with the lists of the plan: d.GetChange("user").
UpdatePlannedUsers ==
    /\ pc = "User"
    /\ IF change.user
       THEN /\ \E r \in diffAwsMqBrokerUsers(BrokerId, oldUsers,
                                              PlannedUsers(d, oldUsers, newUsers)) :
                  /\ createL' = r.cr
                  /\ deleteL' = r.di
                  /\ updateL' = r.ur
            /\ oldUsers' = OldUsersAfterDiff(oldUsers)
            /\ updatedUsers' = FALSE
            /\ pc' = "Users"
       ELSE /\ pc' = "Reboot"
            /\ UNCHANGED <<oldUsers, createL, deleteL, updateL, updatedUsers>>
    /\ UNCHANGED <<newUsers, change, apply_immediately,
                   requiresReboot, usersReturn, calls, err, broker, polls,
                   cycle, pending>>
    /\ UNCHANGED lvars

\* A resource not yet created (no arn) or created, of any engine type.
InitPlan ==
    /\ pc = "Idle"
    /\ oldUsers = <<>> /\ newUsers = <<>>
    /\ createL = <<>> /\ deleteL = <<>> /\ updateL = <<>>
    /\ change = NoChange
    /\ apply_immediately = FALSE
    /\ requiresReboot = FALSE
    /\ updatedUsers = FALSE
    /\ usersReturn = NoReturn
    /\ calls = <<>>
    /\ err = Running
    /\ polls = 0
    /\ cycle = 0
    /\ pending = FALSE
    /\ remoteUsers = <<>>
    /\ rawUsers = <<>>
    /\ cancelled = -1
    /\ \E e \in EngineTypes :
          \/ /\ d = [id |-> "", read |-> FALSE, user |-> <<>>, arn |-> "",
                    engine_type |-> e]
             /\ broker = BrokerAbsent
          \/ /\ d = [id |-> BrokerId, read |-> FALSE, user |-> <<>>,
                    arn |-> BrokerArn, engine_type |-> e]
             /\ broker = BrokerRunning

NextPlan ==
    \/ PlanUsers
    \/ UpdateSecurityGroups
    \/ UpdateConfiguration
    \/ UpdatePlannedUsers
    \/ CreateUser
    \/ DeleteUser
    \/ UpdateUser
    \/ ReturnUsers
    \/ UsersReturned
    \/ Reboot
    \/ PollReboot
    \/ TimeoutReboot
    \/ UpdateTags
    \/ BrokerStartsReboot
    \/ BrokerEndsReboot
    \/ BrokerLeaves

SpecPlan == InitPlan /\ [][NextPlan]_vars

\* ---------------------------------------------------------------------------
\* One reconciliation of the users followed by the remote, a read of the
\* remote, and the reconciliation after it.

ConvergeAttrs ==
    { [console_access |-> FALSE, groups |-> <<"admin", "ops">>, password |-> "pw1"],
      [console_access |-> FALSE, groups |-> <<"ops", "admin">>, password |-> "pw2"],
      [console_access |-> TRUE,  groups |-> <<>>,               password |-> "pw1"] }

\* A user as the remote holds it: it keeps the password and never returns it.
HeldUser(name, consoleAccess, groups, password) ==
    [Username |-> name, ConsoleAccess |-> consoleAccess, Groups |-> groups,
     Password |-> password]

\* The remote's users when they are the Observed users.
RemoteOf(users) ==
    [i \in DOMAIN users |->
        HeldUser(users[i].username, users[i].console_access,
                 SetList(users[i].groups.items), users[i].password)]

\* What a user call that succeeds does to the remote's users.
RemoteCreateUser(remote, r) ==
    Append(remote, HeldUser(r.Username, r.ConsoleAccess,
                            IF r.HasGroups THEN r.Groups ELSE <<>>, r.Password))

RemoteDeleteUser(remote, r) ==
    SelectSeq(remote, LAMBDA u : u.Username # r.Username)

RemoteUpdateUser(remote, r) ==
    [i \in DOMAIN remote |->
        IF remote[i].Username = r.Username
        THEN HeldUser(r.Username, r.ConsoleAccess, r.Groups, r.Password)
        ELSE remote[i]]

\* The three loops, with what the remote does on success.
CreateUserAtRemote ==
    /\ CreatePhase
    /\ \E ok \in BOOLEAN :
          /\ UserCallStep("CreateUser", Head(createL).Username, ok,
                          Tail(createL), deleteL, updateL)
          /\ remoteUsers' = IF ok THEN RemoteCreateUser(remoteUsers, Head(createL))
                            ELSE remoteUsers
    /\ UNCHANGED <<d, rawUsers, cancelled>>

DeleteUserAtRemote ==
    /\ DeletePhase
    /\ \E ok \in BOOLEAN :
          /\ UserCallStep("DeleteUser", Head(deleteL).Username, ok,
                          createL, Tail(deleteL), updateL)
          /\ remoteUsers' = IF ok THEN RemoteDeleteUser(remoteUsers, Head(deleteL))
                            ELSE remoteUsers
    /\ UNCHANGED <<d, rawUsers, cancelled>>

UpdateUserAtRemote ==
    /\ UpdatePhase
    /\ \E ok \in BOOLEAN :
          /\ UserCallStep("UpdateUser", Head(updateL).Username, ok,
                          createL, deleteL, Tail(updateL))
          /\ remoteUsers' = IF ok THEN RemoteUpdateUser(remoteUsers, Head(updateL))
                            ELSE remoteUsers
    /\ UNCHANGED <<d, rawUsers, cancelled>>

\* Terraform refreshes the resource after an apply that succeeded: Read.
RefreshAfterApply ==
    /\ err = Return("", NilErr)
    /\ StartRead

\* The plan after the refresh, with the configuration as it was: the users Read
\* wrote to the state against the Declared users; the tags may have changed.
\* Update is entered when the plan holds a change.
PlanAfterRead ==
    /\ pc = "Returned"
    /\ err = Return("", NilErr)
    /\ d.read
    /\ cycle < MaxCycles
    /\ cycle' = cycle + 1
    /\ \E o \in UserList :
          /\ oldUsers' = o
          /\ \E t \in BOOLEAN : change' = PlannedChange(d, o, newUsers, t)
    /\ pending' = IF RebootAccepted(calls) THEN FALSE
                  ELSE pending \/ (requiresReboot /\ ~apply_immediately)
    /\ requiresReboot' = InitialRequiresReboot(pending')
    /\ updatedUsers' = FALSE
    /\ usersReturn' = NoReturn
    /\ calls' = <<>>
    /\ polls' = 0
    /\ IF change' = NoChange THEN pc' = "Returned" /\ err' = Return("", NilErr)
       ELSE pc' = "SecurityGroups" /\ err' = Running
    /\ UNCHANGED <<newUsers, createL, deleteL, updateL, apply_immediately, broker>>
    /\ UNCHANGED lvars

\* Update is entered with a plan of Observed against Declared users; the
\* remote holds the Observed users, and d reads the Declared users.
InitConverge ==
    /\ oldUsers \in UserLists(ConvergeAttrs)
    /\ newUsers \in UserLists(ConvergeAttrs)
    /\ createL = <<>> /\ deleteL = <<>> /\ updateL = <<>>
    /\ d = [id |-> BrokerId, read |-> FALSE,
            user |-> {newUsers[i] : i \in DOMAIN newUsers},
            arn |-> BrokerArn, engine_type |-> EngineTypeActivemq]
    /\ change = PlannedChange(d, oldUsers, newUsers, FALSE)
    /\ IF change = NoChange THEN pc = "Returned" /\ err = Return("", NilErr)
       ELSE pc = "SecurityGroups" /\ err = Running
    /\ apply_immediately = FALSE
    /\ requiresReboot = FALSE
    /\ updatedUsers = FALSE
    /\ usersReturn = NoReturn
    /\ calls = <<>>
    /\ broker = BrokerRunning
    /\ polls = 0
    /\ cycle = 0
    /\ pending = FALSE
    /\ remoteUsers = RemoteOf(oldUsers)
    /\ rawUsers = <<>>
    /\ cancelled = -1

NextConverge ==
    \/ UpdateSecurityGroups
    \/ UpdateConfiguration
    \/ UpdatePlannedUsers
    \/ CreateUserAtRemote
    \/ DeleteUserAtRemote
    \/ UpdateUserAtRemote
    \/ ReturnUsers
    \/ UsersReturned
    \/ Reboot
    \/ UpdateTags
    \/ RefreshAfterApply
    \/ ReadDescribeBroker
    \/ DescribeUser
    \/ SetUsers
    \/ PlanAfterRead

SpecConverge == InitConverge /\ [][NextConverge]_vars

(***************************************************************************)
(* Properties of the differ                                                *)
(***************************************************************************)
Range(f) == {f[i] : i \in DOMAIN f}

CreateNames == {createL[i].Username : i \in 1..Len(createL)}
DeleteNames == {deleteL[i].Username : i \in 1..Len(deleteL)}
UpdateNames == {updateL[i].Username : i \in 1..Len(updateL)}

\* The user of a list with unique usernames that carries the given name.
ByName(users, n) == CHOOSE u \in Range(users) : u.username = n

\* Attribute equality of the reference: groups are compared as sets.
SameAttributes(o, n) ==
    /\ o.console_access = n.console_access
    /\ o.password = n.password
    /\ Range(o.groups.items) = Range(n.groups.items)

InBoth == Names(oldUsers) \cap Names(newUsers)

\* C1: with unique usernames on both sides, every username of Observed and
\* Declared is in at most one of ToCreate, ToUpdate, ToDelete (in none of
\* them when unchanged), once in that list, and the lists name no other user.
C1_OneClassPerUsername ==
    (pc = "DiffDone" /\ UniqueNames(oldUsers) /\ UniqueNames(newUsers)) =>
        /\ CreateNames \cap UpdateNames = {}
        /\ CreateNames \cap DeleteNames = {}
        /\ UpdateNames \cap DeleteNames = {}
        /\ Cardinality(CreateNames) = Len(createL)
        /\ Cardinality(UpdateNames) = Len(updateL)
        /\ Cardinality(DeleteNames) = Len(deleteL)
        /\ (CreateNames \cup UpdateNames \cup DeleteNames)
               \subseteq (Names(oldUsers) \cup Names(newUsers))

\* A diff that creates one user, updates another and deletes a third.
C1_Witness ==
    /\ pc = "DiffDone"
    /\ CreateNames # {} /\ UpdateNames # {} /\ DeleteNames # {}

\* C2: the differ agrees with the reference set difference: ToCreate is the
\* Declared usernames absent from Observed, ToDelete the Observed usernames
\* absent from Declared, ToUpdate the usernames in both whose console_access,
\* groups (as a set) or password differ.
C2_ReferenceDifference ==
    (pc = "DiffDone" /\ UniqueNames(oldUsers) /\ UniqueNames(newUsers)) =>
        /\ CreateNames = Names(newUsers) \ Names(oldUsers)
        /\ DeleteNames = Names(oldUsers) \ Names(newUsers)
        /\ UpdateNames =
              {n \in InBoth : ~SameAttributes(ByName(oldUsers, n), ByName(newUsers, n))}

\* An update caused by the password alone, beside an unchanged user.
C2_Witness ==
    /\ pc = "DiffDone"
    /\ Len(oldUsers) = 2 /\ Len(newUsers) = 2
    /\ \E n \in UpdateNames :
          LET o == ByName(oldUsers, n)
              dn == ByName(newUsers, n)
          IN  /\ o.console_access = dn.console_access
              /\ Range(o.groups.items) = Range(dn.groups.items)
              /\ o.password # dn.password
    /\ \E n \in InBoth : n \notin UpdateNames

\* C3: a user whose Observed and Declared entries have the same
\* console_access, the same password and the same groups, listed in whatever
\* order, is in none of ToCreate, ToUpdate, ToDelete.
C3_GroupOrderIndependent ==
    (pc = "DiffDone" /\ UniqueNames(oldUsers) /\ UniqueNames(newUsers)) =>
        \A n \in InBoth :
            SameAttributes(ByName(oldUsers, n), ByName(newUsers, n)) =>
                n \notin (CreateNames \cup UpdateNames \cup DeleteNames)

\* Declared lists the groups in an order other than the one Set.List() gives
\* for Observed, and the user is left alone.
C3_Witness ==
    /\ pc = "DiffDone"
    /\ \E n \in InBoth :
          LET o == ByName(oldUsers, n)
              dn == ByName(newUsers, n)
          IN  /\ SameAttributes(o, dn)
              /\ Len(dn.groups.items) = 2
              /\ dn.groups.items # o.groups.items
              /\ n \notin (CreateNames \cup UpdateNames \cup DeleteNames)

\* Observed is Declared itself: the same users at the same positions.
SameCollection ==
    /\ Len(oldUsers) = Len(newUsers)
    /\ \A i \in 1..Len(newUsers) :
          /\ oldUsers[i].username = newUsers[i].username
          /\ SameAttributes(oldUsers[i], newUsers[i])

\* C4: diffing a Declared collection against itself as Observed yields an
\* empty ToCreate, an empty ToUpdate and an empty ToDelete.
C4_Idempotent ==
    (pc = "DiffDone" /\ SameCollection) =>
        (createL = <<>> /\ updateL = <<>> /\ deleteL = <<>>)

C4_Witness ==
    /\ pc = "DiffDone"
    /\ SameCollection
    /\ Len(newUsers) = 2
    /\ createL = <<>> /\ updateL = <<>> /\ deleteL = <<>>

(***************************************************************************)
(* Properties of the convergence driver and of the Update cycle            *)
(***************************************************************************)
UserOps == {"CreateUser", "DeleteUser", "UpdateUser"}
UserCalls == {i \in 1..Len(calls) : calls[i].op \in UserOps}
Phase(op) == CASE op = "CreateUser" -> 1 [] op = "DeleteUser" -> 2 [] OTHER -> 3

\* C5: the user calls come in three phases that do not interleave: every
\* CreateUser precedes every DeleteUser, every DeleteUser every UpdateUser.
C5_PhasesInOrder ==
    \A i \in UserCalls : \A j \in UserCalls :
        i < j => Phase(calls[i].op) <= Phase(calls[j].op)

\* A cycle that created, deleted and updated a user.
C5_Witness ==
    /\ usersReturn.called
    /\ \E i \in UserCalls : \E j \in UserCalls : \E k \in UserCalls :
          /\ i < j /\ j < k
          /\ calls[i].op = "CreateUser"
          /\ calls[j].op = "DeleteUser"
          /\ calls[k].op = "UpdateUser"

\* C6: the flag updateAwsMqBrokerUsers returns is true exactly when one of
\* its CreateUser, DeleteUser or UpdateUser calls succeeded; when the first
\* call fails the flag is false.
C6_FlagIffCallSucceeded ==
    usersReturn.called =>
        (usersReturn.flag <=> \E i \in UserCalls : calls[i].ok)

\* C7: after a failed user call no further user call is issued, none to undo
\* an earlier one either; the function returns the error of that call, and
\* the flag is true when an earlier call had succeeded.
C7_FailureAborts ==
    /\ \A i \in UserCalls :
          ~calls[i].ok =>
             /\ \A j \in UserCalls : j <= i
             /\ usersReturn.called
             /\ usersReturn.err = ErrOf(calls[i])
    /\ (usersReturn.called /\ usersReturn.err # NilErr) =>
          \E i \in UserCalls : ~calls[i].ok /\ usersReturn.err = ErrOf(calls[i])
    /\ (usersReturn.called /\ \E i \in UserCalls : calls[i].ok) => usersReturn.flag

\* A create succeeded, then an update failed.
C7_Witness ==
    /\ usersReturn.called
    /\ usersReturn.flag
    /\ usersReturn.err.op = "UpdateUser"
    /\ \E i \in UserCalls : calls[i].op = "CreateUser" /\ calls[i].ok
    /\ err = Return("user", usersReturn.err)

RebootCalls == {i \in 1..Len(calls) : calls[i].op = "RebootBroker"}
RebootIssued == RebootCalls # {}
ConfigApplied ==
    \E i \in 1..Len(calls) :
        calls[i] = Call("UpdateBroker", "configuration", TRUE)

\* The cycle got as far as the test of apply_immediately && requiresReboot.
ReachedReboot ==
    \/ pc \in {"WaitReboot", "Tags"}
    \/ pc = "Returned" /\ err.step \in {"reboot", "wait", "tags", ""}

\* C8 as stated: RebootBroker is issued iff apply_immediately is true and
\* requiresReboot was set, requiresReboot being set exactly when a
\* configuration/logs change was applied or the user apply returned
\* mutated=true; security_groups or tags alone cause no reboot; at most one
\* RebootBroker per cycle.
C8_Original ==
    pc = "Returned" =>
        /\ RebootIssued <=> (apply_immediately /\ requiresReboot)
        /\ requiresReboot <=>
              (ConfigApplied \/ (usersReturn.called /\ usersReturn.flag))
        /\ (~change.configuration /\ ~change.user) => ~RebootIssued
        /\ Cardinality(RebootCalls) <= 1

\* C8 (amended): RebootBroker is issued iff no earlier sub-step of the cycle
\* failed, apply_immediately is true and requiresReboot was set in the cycle;
\* requiresReboot is set exactly when a configuration/logs change was applied
\* successfully or the user apply returned mutated=true together with no
\* error; security_groups or tags alone cause no reboot; at most one
\* RebootBroker per cycle.
C8_RebootIffRequired ==
    /\ RebootIssued <=> (ReachedReboot /\ apply_immediately /\ requiresReboot)
    /\ (pc = "Reboot" \/ ReachedReboot) =>
          (requiresReboot <=>
              (ConfigApplied \/
                  (usersReturn.called /\ usersReturn.flag /\ usersReturn.err = NilErr)))
    /\ (~change.configuration /\ ~change.user) => (~RebootIssued /\ ~requiresReboot)
    /\ Cardinality(RebootCalls) <= 1

\* A cycle that changed security groups, users and tags, no configuration,
\* and rebooted on account of the users.
C8_Witness ==
    /\ pc = "Returned" /\ err = Return("", NilErr)
    /\ change.security_groups /\ change.tags /\ ~change.configuration
    /\ usersReturn.flag
    /\ RebootIssued

\* The last status poll logged, 0 if none.
LastPoll ==
    LET P == {i \in 1..Len(calls) : calls[i].op = "DescribeBroker"}
    IN  IF P = {} THEN 0 ELSE CHOOSE i \in P : \A j \in P : j <= i

\* C9: once RebootBroker was accepted, Update goes on to the tags and to
\* success only after a poll made after the restart call saw the broker
\* RUNNING; a poll that fails or sees a status other than RUNNING or
\* REBOOT_IN_PROGRESS, and a timeout, end Update with an error.
C9_SuccessOnlyAfterRunningSeen ==
    /\ (RebootIssued /\ (pc = "Tags" \/ (pc = "Returned" /\ err.step \in {"tags", ""}))) =>
          /\ \A r \in RebootCalls : r < LastPoll
          /\ calls[LastPoll] = Call("DescribeBroker", "RUNNING", TRUE)
    /\ \A i \in 1..Len(calls) :
          (/\ calls[i].op = "DescribeBroker"
           /\ (~calls[i].ok \/ calls[i].arg \notin {"RUNNING", "REBOOT_IN_PROGRESS"})) =>
              /\ pc = "Returned"
              /\ err.step = "wait" /\ err.cause # NilErr
              /\ i = Len(calls)
    /\ (err.returned /\ err.cause = TimeoutError) => (pc = "Returned" /\ err.step = "wait")

\* Update succeeded after it saw the broker rebooting, then running.
C9_Witness ==
    /\ pc = "Returned" /\ err = Return("", NilErr)
    /\ RebootIssued
    /\ LastPoll > 1
    /\ calls[LastPoll - 1] = Call("DescribeBroker", "REBOOT_IN_PROGRESS", TRUE)
    /\ calls[LastPoll] = Call("DescribeBroker", "RUNNING", TRUE)

\* The cycle itself gave cause for a restart.
OwnRestartCause ==
    ConfigApplied \/ (usersReturn.called /\ usersReturn.flag /\ usersReturn.err = NilErr)

\* C10 as stated: when an earlier cycle run with apply_immediately=false left
\* a restart to do, a later cycle run with apply_immediately=true issues
\* RebootBroker, whatever its own changes.
C10_Original ==
    (pending /\ apply_immediately /\ pc = "Returned" /\ err = Return("", NilErr)) =>
        RebootIssued

\* C10 (amended): a cycle run with apply_immediately=false issues no
\* RebootBroker, and the restart it required is not remembered: a later cycle
\* run with apply_immediately=true issues RebootBroker only when that cycle
\* itself applied a configuration/logs change or mutated users.
C10_DeferredRestartNotCarried ==
    /\ ~apply_immediately => ~RebootIssued
    /\ (pending /\ apply_immediately /\ ReachedReboot) =>
          (RebootIssued <=> OwnRestartCause)
    /\ (pending /\ pc = "SecurityGroups") => ~requiresReboot

\* A restart was left over, the next cycle ran with apply_immediately=true
\* and no change of its own, and returned without a reboot.
C10_Witness ==
    /\ pending /\ apply_immediately
    /\ change = NoChange
    /\ pc = "Returned" /\ err = Return("", NilErr)
    /\ ~RebootIssued

\* ---------------------------------------------------------------------------
\* C11: the failure of any sub-step of Update (the security-groups or the
\* configuration/logs UpdateBroker, a user create, delete or update,
\* RebootBroker, the wait for the reboot, the tag update) makes Update return
\* an error that carries the error of that step; the failed call is the last
\* remote call of the cycle, so nothing mutating follows it and it is not
\* issued again.
FailedCalls == {i \in 1..Len(calls) : ~calls[i].ok}
MutatingOps == UserOps \cup {"UpdateBroker", "RebootBroker", "UpdateTags"}
MutatingAfter(i) ==
    {j \in (i + 1)..Len(calls) : calls[j].op \in MutatingOps}

C11_FailureEndsUpdate ==
    /\ \A i \in FailedCalls :
          /\ i = Len(calls)
          /\ MutatingAfter(i) = {}
          /\ pc \in {"UsersReturned", "Returned"}
          /\ pc = "UsersReturned" => usersReturn.err = ErrOf(calls[i])
          /\ pc = "Returned" =>
                /\ err.returned /\ err.step # ""
                /\ err.cause = ErrOf(calls[i])
    /\ (err.returned /\ err.step = "wait") =>
          /\ pc = "Returned"
          /\ err.cause # NilErr
          /\ (calls[Len(calls)].op = "DescribeBroker"
                \/ err.cause = TimeoutError)
          /\ \A j \in 1..Len(calls) : calls[j].op # "UpdateTags"
    /\ (err.returned /\ err.step = "") => FailedCalls = {}

\* The tag update fails after the users were changed and the broker was
\* restarted: Update returns the tag error and the cycle is over.
C11_Witness ==
    /\ pc = "Returned"
    /\ err.step = "tags"
    /\ err.cause = [op |-> "UpdateTags", arg |-> ""]
    /\ RebootIssued
    /\ UserCalls # {}
    /\ Len(calls) \in FailedCalls

\* ---------------------------------------------------------------------------
\* C12: when the DescribeBroker of Read answers NotFound, Read clears the id
\* and returns no error, having written no attribute and with no DescribeUser
\* issued; any error other than NotFound and Forbidden is returned as it is
\* and the resource data, the id included, stays as it was.
LastCall == calls[Len(calls)]
DescribeUserCalls == {i \in 1..Len(calls) : calls[i].op = "DescribeUser"}

C12_ReadNotFound ==
    /\ [][(pc = "Read" /\ pc' # "Read") =>
            LET c == calls'[Len(calls')]
            IN  /\ c.op = "DescribeBroker"
                /\ (c.arg = "NotFoundException" /\ ~c.ok) =>
                      /\ d' = [d EXCEPT !.id = ""]
                      /\ err' = Return("", NilErr)
                      /\ pc' = "Returned"
                /\ (~c.ok /\ c.arg \notin {"NotFoundException",
                                           "ForbiddenException"}) =>
                      /\ d' = d
                      /\ err'.returned
                      /\ err'.cause = ErrOf(c)
                      /\ pc' = "Returned"]_vars
    /\ [][pc = "Returned" => (calls' = calls \/ Len(calls') <= 1)]_vars
    /\ []((calls # <<>> /\ DescribeUserCalls # {}) => d.read)

\* Read of a resource that has users in its state finds the broker gone.
C12_Witness ==
    /\ pc = "Returned"
    /\ calls = <<Call("DescribeBroker", "NotFoundException", FALSE)>>
    /\ d.id = "" /\ ~d.read /\ d.user # {}
    /\ err = Return("", NilErr)

\* ---------------------------------------------------------------------------
\* C13: a Forbidden answer of DescribeBroker is taken like NotFound wherever
\* the handlers describe the broker: Read clears the id and returns no error,
\* and the wait of Delete takes it as the end of the deletion and returns no
\* error.
ForbiddenAnswer == Call("DescribeBroker", "ForbiddenException", FALSE)

C13_ForbiddenAsNotFound ==
    (pc = "Returned" /\ calls # <<>> /\ LastCall = ForbiddenAnswer) =>
        /\ calls[1].op = "DescribeBroker" =>
              (d.id = "" /\ err = Return("", NilErr))
        /\ calls[1].op = "DeleteBroker" => err = Return("", NilErr)

\* ---------------------------------------------------------------------------
\* C14: each round of the wait in Create classifies what it fetched: RUNNING
\* ends the wait well and Create goes on to Read; CREATION_IN_PROGRESS and
\* REBOOT_IN_PROGRESS make it fetch again; any other status fails Create with
\* an unexpected-state error; a fetch error fails Create with that error.
\* Create returns success only after a fetch that reported RUNNING, every
\* fetch before it having reported a pending status, and after Read ran.
CreateStarted == calls # <<>> /\ calls[1] = Call("CreateBroker", "", TRUE)
SawRunning(i) == calls[i] = Call("DescribeBroker", "RUNNING", TRUE)
CreationPending == {"CREATION_IN_PROGRESS", "REBOOT_IN_PROGRESS"}

C14_CreateWaitsForRunning ==
    /\ [][(pc = "WaitCreate" /\ calls' # calls) =>
            LET c == calls'[Len(calls')]
            IN  /\ c.op = "DescribeBroker"
                /\ ~c.ok =>
                      (pc' = "Returned" /\ err' = Return("wait", ErrOf(c)))
                /\ (c.ok /\ c.arg = "RUNNING") =>
                      (pc' = "Read" /\ ~err'.returned)
                /\ (c.ok /\ c.arg \in CreationPending) =>
                      (pc' = "WaitCreate" /\ ~err'.returned)
                /\ (c.ok /\ c.arg \notin CreationPending \cup {"RUNNING"}) =>
                      /\ pc' = "Returned"
                      /\ err' = Return("wait", UnexpectedState(c.arg))]_vars
    /\ []((CreateStarted /\ (pc \in {"Read", "ReadUsers"}
                               \/ err = Return("", NilErr))) =>
            \E i \in 2..Len(calls) :
                /\ SawRunning(i)
                /\ \A j \in 2..(i - 1) :
                      calls[j].ok /\ calls[j].arg \in CreationPending
                /\ err.returned =>
                      (i < Len(calls) /\ calls[i + 1].op = "DescribeBroker"))

\* The wait fetches CREATION_IN_PROGRESS twice and then RUNNING; Read
\* describes the broker and its user, and Create returns success.
C14_Witness ==
    /\ pc = "Returned"
    /\ err = Return("", NilErr)
    /\ Len(calls) = 6
    /\ CreateStarted
    /\ calls[2] = Call("DescribeBroker", "CREATION_IN_PROGRESS", TRUE)
    /\ calls[3] = calls[2]
    /\ SawRunning(4)
    /\ SawRunning(5)
    /\ calls[6].op = "DescribeUser" /\ calls[6].ok
    /\ d.id = BrokerId /\ d.read

\* ---------------------------------------------------------------------------
\* C15: Delete polls only after DeleteBroker succeeded; an error of
\* DeleteBroker is returned with no poll made.  Delete returns success only
\* after a DescribeBroker poll answered NotFound, every poll before it having
\* reported RUNNING, REBOOT_IN_PROGRESS or DELETION_IN_PROGRESS, and a poll
\* that reports one of these does not end the wait.
DeleteStarted == calls # <<>> /\ calls[1].op = "DeleteBroker"
DeletionPending == {"RUNNING", "REBOOT_IN_PROGRESS", "DELETION_IN_PROGRESS"}
NotFoundAnswer == Call("DescribeBroker", "NotFoundException", FALSE)

C15_DeleteWaitsForNotFound ==
    /\ (DeleteStarted /\ ~calls[1].ok) =>
          /\ Len(calls) = 1
          /\ pc = "Returned"
          /\ err = Return("delete", ErrOf(calls[1]))
    /\ (DeleteStarted /\ err = Return("", NilErr)) =>
          /\ calls[1].ok
          /\ Len(calls) >= 2
          /\ LastCall = NotFoundAnswer
          /\ \A j \in 2..(Len(calls) - 1) :
                calls[j].ok /\ calls[j].arg \in DeletionPending
    /\ (DeleteStarted /\ Len(calls) >= 2 /\ LastCall.ok
            /\ LastCall.arg \in DeletionPending) =>
          (pc = "WaitDelete" \/ err = Return("wait", TimeoutError))

\* The broker is reported RUNNING, then DELETION_IN_PROGRESS, then not found.
C15_Witness ==
    /\ pc = "Returned"
    /\ err = Return("", NilErr)
    /\ calls = <<Call("DeleteBroker", "", TRUE),
                 Call("DescribeBroker", "RUNNING", TRUE),
                 Call("DescribeBroker", "DELETION_IN_PROGRESS", TRUE),
                 NotFoundAnswer>>

\* ---------------------------------------------------------------------------
\* The waits of Create and of Delete end; a wait all of whose fetches
\* reported a pending status ends with the timeout error, never with success.
Waiting == pc \in {"WaitCreate", "WaitDelete"}
AllPending(states) ==
    /\ Len(calls) >= 2
    /\ \A j \in 2..Len(calls) :
          /\ calls[j].op = "DescribeBroker"
          /\ calls[j].ok
          /\ calls[j].arg \in states

LifeWaitsTerminate ==
    /\ Waiting ~> ~Waiting
    /\ []((CreateStarted /\ AllPending(CreationPending) /\ ~Waiting) =>
            err = Return("wait", TimeoutError))
    /\ []((DeleteStarted /\ AllPending(DeletionPending) /\ ~Waiting) =>
            err = Return("wait", TimeoutError))

\* The fetches of the wait of Update: the polls after RebootBroker.
RebootPolls ==
    {j \in 1..Len(calls) :
        calls[j].op = "DescribeBroker" /\ \E r \in RebootCalls : r < j}
AllRebootPollsPending ==
    /\ RebootPolls # {}
    /\ \A j \in RebootPolls : calls[j].ok /\ calls[j].arg \in RebootPending

WaitingAny == Waiting \/ pc = "WaitReboot"

\* C16: every wait of a handler (Create, Delete, and Update after
\* RebootBroker) ends; a wait all of whose fetches reported a status of its
\* pending list ends with the timeout error, never with success.
C16_WaitTerminates ==
    /\ WaitingAny ~> ~WaitingAny
    /\ []((CreateStarted /\ AllPending(CreationPending) /\ ~WaitingAny) =>
            err = Return("wait", TimeoutError))
    /\ []((DeleteStarted /\ AllPending(DeletionPending) /\ ~WaitingAny) =>
            err = Return("wait", TimeoutError))
    /\ []((AllRebootPollsPending /\ ~WaitingAny) =>
            err = Return("wait", TimeoutError))

\* The broker stays in DELETION_IN_PROGRESS for as long as Delete waits.
LifeWaitTimesOut ==
    /\ pc = "Returned"
    /\ DeleteStarted
    /\ Len(calls) = MaxPolls + 1
    /\ AllPending({"DELETION_IN_PROGRESS"})
    /\ err = Return("wait", TimeoutError)

\* ---------------------------------------------------------------------------
\* C17: once the caller has asked to stop during the wait of Create or of
\* Delete, the handler issues no further call, and the wait ends with an
\* error.
C17_CancelEndsWait ==
    cancelled # -1 =>
        /\ Len(calls) = cancelled
        /\ ~Waiting => (err.returned /\ err.cause # NilErr)

\* ---------------------------------------------------------------------------
\* C18 as stated: the usernames of ToCreate and ToUpdate together are the
\* Declared usernames less those that appear in ToDelete only.
DeleteOnly == DeleteNames \ (CreateNames \cup UpdateNames)

C18_Original ==
    (pc = "DiffDone" /\ UniqueNames(oldUsers) /\ UniqueNames(newUsers)) =>
        CreateNames \cup UpdateNames = Names(newUsers) \ DeleteOnly

\* C18: the usernames of ToCreate and ToUpdate together are the Declared
\* usernames less those of the unchanged users (in Observed and Declared with
\* the same console_access, password and set of groups); no username of
\* ToDelete is a Declared one.
Unchanged ==
    {n \in InBoth : SameAttributes(ByName(oldUsers, n), ByName(newUsers, n))}

C18_CreateUpdateAreChanged ==
    (pc = "DiffDone" /\ UniqueNames(oldUsers) /\ UniqueNames(newUsers)) =>
        /\ CreateNames \cup UpdateNames = Names(newUsers) \ Unchanged
        /\ DeleteNames \cap Names(newUsers) = {}

\* One user is unchanged, one is created and one deleted.
C18_Witness ==
    /\ pc = "DiffDone"
    /\ Unchanged # {}
    /\ CreateNames # {}
    /\ DeleteNames # {}
    /\ CreateNames \cup UpdateNames # Names(newUsers)

\* ---------------------------------------------------------------------------
\* C19: the users Read writes to the resource data are the users the remote
\* returned, one map each.  A map has the password of the last-declared user
\* of that username when there is one and its password is not empty, and no
\* password otherwise; username, console_access and groups (when not empty)
\* are those of the remote user.
Declared(users, name) == {GetUser(m) : m \in {x \in users : x.username = name}}

FlattenedFrom(m, u, users) ==
    /\ m.username = u.Username
    /\ m.console_access = u.ConsoleAccess
    /\ IF Len(u.Groups) > 0
       THEN "groups" \in DOMAIN m /\ m.groups.items = u.Groups
       ELSE "groups" \notin DOMAIN m
    /\ IF \E c \in Declared(users, u.Username) : c.password # ""
       THEN /\ "password" \in DOMAIN m
            /\ \A c \in Declared(users, u.Username) : m.password = c.password
       ELSE "password" \notin DOMAIN m

C19_PasswordCarriedForward ==
    [][(pc = "ReadUsers" /\ pc' = "Returned" /\ err' = Return("", NilErr)) =>
        /\ Cardinality(d'.user) = Len(rawUsers)
        /\ \A i \in DOMAIN rawUsers :
              \E m \in d'.user : FlattenedFrom(m, rawUsers[i], d.user)]_vars

\* Read found two users at the remote: one has a last-declared password and
\* keeps it, the other has none; one has console access, which no
\* last-declared user had.
C19_Witness ==
    /\ pc = "Returned"
    /\ d.read
    /\ Len(rawUsers) = 2
    /\ Cardinality(d.user) = 2
    /\ \E m \in d.user : "password" \in DOMAIN m /\ m.password = "pw1"
    /\ \E m \in d.user : "password" \notin DOMAIN m
    /\ \E m \in d.user : m.console_access /\ "groups" \notin DOMAIN m

\* ---------------------------------------------------------------------------
\* C20: the differ is a pure function: a call leaves the Observed and the
\* Declared collection as they were handed in (every groups value still a
\* set), and a second call with the same two collections returns, with the
\* same ToCreate, ToUpdate and ToDelete as sets.
GroupsAreSets(users) == \A i \in DOMAIN users : users[i].groups.type = "Set"

C20_DiffIsPure ==
    /\ [](GroupsAreSets(oldUsers) /\ GroupsAreSets(newUsers))
    /\ [](pc # "DiffPanic")
    /\ [][pc = "DiffDone" =>
            /\ pc' = "DiffAgainDone"
            /\ Range(createL') = Range(createL)
            /\ Range(updateL') = Range(updateL)
            /\ Range(deleteL') = Range(deleteL)]_vars

\* ---------------------------------------------------------------------------
\* C21: a request in ToCreate carries the console_access, the password and the
\* username of its Declared user, and the groups exactly when the Declared
\* group set is not empty; a request in ToUpdate carries console_access,
\* groups, password and username of its Declared user, whichever of them
\* differ from the Observed user.
C21_RequestsCarryDeclared ==
    (pc = "DiffDone" /\ UniqueNames(oldUsers) /\ UniqueNames(newUsers)) =>
        /\ \A i \in DOMAIN createL :
              LET r == createL[i]
              IN  /\ r.Username \in Names(newUsers)
                  /\ r.BrokerId = BrokerId
                  /\ r.ConsoleAccess = ByName(newUsers, r.Username).console_access
                  /\ r.Password = ByName(newUsers, r.Username).password
                  /\ r.HasGroups =
                        (ByName(newUsers, r.Username).groups.items # <<>>)
                  /\ Range(r.Groups) =
                        Range(ByName(newUsers, r.Username).groups.items)
        /\ \A i \in DOMAIN updateL :
              LET r == updateL[i]
              IN  /\ r.Username \in Names(newUsers)
                  /\ r.BrokerId = BrokerId
                  /\ r.ConsoleAccess = ByName(newUsers, r.Username).console_access
                  /\ r.Password = ByName(newUsers, r.Username).password
                  /\ Range(r.Groups) =
                        Range(ByName(newUsers, r.Username).groups.items)

\* One user is created without groups; another differs from its Observed
\* entry in the password alone and its request carries the two groups too.
C21_Witness ==
    /\ pc = "DiffDone"
    /\ \E i \in DOMAIN createL : ~createL[i].HasGroups
    /\ \E i \in DOMAIN updateL :
          LET r == updateL[i]
              o == ByName(oldUsers, r.Username)
          IN  /\ o.password # r.Password
              /\ o.console_access = r.ConsoleAccess
              /\ Range(o.groups.items) = Range(r.Groups)
              /\ Len(r.Groups) = 2

\* ---------------------------------------------------------------------------
\* C22: the DiffSuppressFunc of "user" returns true exactly when engine_type
\* is RabbitMQ in any spelling of upper and lower case and the arn is set.
\* For such a broker a difference of the users alone leads to no Update, and
\* an Update that runs issues no CreateUser, DeleteUser or UpdateUser: its
\* user step finds nothing to do.  For every other broker a difference of the
\* users is kept: Update is entered (or the creation planned) with the
\* change, and the user step hands the differ lists that give a request.
RabbitSpellings ==
    {<<"R", "A", "B", "B", "I", "T", "M", "Q">>,
     <<"R", "a", "b", "b", "i", "t", "M", "Q">>,
     <<"r", "a", "b", "b", "i", "t", "m", "q">>}
CreatedRabbit == d.engine_type \in RabbitSpellings /\ d.arn # ""
NoUserRequest == createL = <<>> /\ deleteL = <<>> /\ updateL = <<>>

C22_SuppressedForCreatedRabbit ==
    /\ [](DiffSuppressFunc(d) <=> CreatedRabbit)
    /\ [][(pc \in {"Idle", "Returned"} /\ cycle' = cycle + 1) =>
            /\ (CreatedRabbit /\ ~change'.tags) =>
                  (pc' = "Returned" /\ change' = NoChange)
            /\ (~CreatedRabbit /\ ~SameUsers(oldUsers', newUsers')) =>
                  (change'.user /\ pc' \in {"Planned", "SecurityGroups"})]_vars
    /\ [][(pc = "User" /\ pc' = "Users") =>
            IF CreatedRabbit THEN NoUserRequest'
            ELSE SameUsers(oldUsers, newUsers) <=> NoUserRequest']_vars
    /\ [](CreatedRabbit => (UserCalls = {} /\ NoUserRequest /\ ~updatedUsers))

\* A created broker of engine type "RabbitMQ" without users in the state,
\* whose configuration names a user: Update ran for the tags, found no change
\* of the users and made no user call.
C22_Witness ==
    /\ pc = "Returned"
    /\ d.engine_type = <<"R", "a", "b", "b", "i", "t", "M", "Q">>
    /\ d.arn # ""
    /\ oldUsers = <<>> /\ newUsers # <<>>
    /\ ~change.user /\ change.tags
    /\ usersReturn = NoReturn
    /\ calls = <<Call("UpdateTags", "", TRUE)>>
    /\ err = Return("", NilErr)

\* ---------------------------------------------------------------------------
\* C23: convergence.  When the remote holds the Observed users and every call
\* of the reconciliation succeeds, the remote holds the Declared users when
\* updateAwsMqBrokerUsers returns; and the differ, given the users read back
\* from that remote (passwords carried forward) and the Declared users,
\* returns three empty lists, so that the second reconciliation issues no
\* user call and returns mutated = false.
HeldSet(remote) ==
    {[username |-> remote[i].Username,
      console_access |-> remote[i].ConsoleAccess,
      groups |-> Range(remote[i].Groups),
      password |-> remote[i].Password] : i \in DOMAIN remote}

DeclaredSet(users) ==
    {[username |-> users[i].username,
      console_access |-> users[i].console_access,
      groups |-> Range(users[i].groups.items),
      password |-> users[i].password] : i \in DOMAIN users}

NothingToDo == {[cr |-> <<>>, di |-> <<>>, ur |-> <<>>]}

\* Read ran after the apply and wrote the users to the state.
ReadBackDone == pc = "Returned" /\ err = Return("", NilErr) /\ d.read

C23_Converges ==
    /\ (pc = "UsersReturned" /\ usersReturn.err = NilErr) =>
            /\ HeldSet(remoteUsers) = DeclaredSet(newUsers)
            /\ Len(remoteUsers) = Len(newUsers)
    /\ ReadBackDone =>
            \A o \in UserList :
                diffAwsMqBrokerUsers(BrokerId, o, newUsers) = NothingToDo
    /\ cycle >= 1 =>
            /\ createL = <<>> /\ deleteL = <<>> /\ updateL = <<>>
            /\ UserCalls = {}
            /\ pc \in {"Users", "UsersReturned", "Reboot", "Tags"} =>
                  ~updatedUsers /\ ~requiresReboot
            /\ pc = "UsersReturned" =>
                  usersReturn = [called |-> TRUE, flag |-> FALSE, err |-> NilErr]

\* Read ran after an Update that created a user, deleted a user and changed
\* the password of a third, every call succeeding; the users in the state
\* carry two passwords.
C23_Witness ==
    /\ ReadBackDone
    /\ cycle = 1
    /\ usersReturn = [called |-> TRUE, flag |-> TRUE, err |-> NilErr]
    /\ Names(newUsers) \ Names(oldUsers) # {}
    /\ Names(oldUsers) \ Names(newUsers) # {}
    /\ \E n \in InBoth :
          ByName(oldUsers, n).password # ByName(newUsers, n).password
    /\ HeldSet(remoteUsers) = DeclaredSet(newUsers)
    /\ {GetUser(m).password : m \in d.user} = {"pw1", "pw2"}
    /\ Len(calls) = 3

\* ---------------------------------------------------------------------------
\* C24: when Update issued RebootBroker, the remote accepted it, and Update
\* returns success, the reboot that was asked for has completed: the broker is
\* neither in the RUNNING state it had before rebooting nor in
\* REBOOT_IN_PROGRESS.
RebootAcceptedCalls == {i \in RebootCalls : calls[i].ok}

C24_RebootCompleted ==
    (pc = "Returned" /\ err = Return("", NilErr) /\ RebootAcceptedCalls # {}) =>
        /\ broker.restart \notin {"requested", "started"}
        /\ broker.status # "REBOOT_IN_PROGRESS"

\* ---------------------------------------------------------------------------
\* C25: the differ emits at most one request per username across ToCreate,
\* ToUpdate and ToDelete, also when Declared holds a username twice with
\* different attributes: a username of Observed is never in ToCreate, and no
\* username is in both ToUpdate and ToCreate.
C25_OneRequestPerUsername ==
    pc = "DiffDone" =>
        /\ Len(createL) + Len(updateL) + Len(deleteL)
              = Cardinality(CreateNames \cup UpdateNames \cup DeleteNames)
        /\ CreateNames \cap Names(oldUsers) = {}
        /\ CreateNames \cap UpdateNames = {}

====
